---------------------------- MODULE Spec2Model ----------------------------
(***************************************************************************)
(* MessageProcessor (src/processing/message_processor.py): the pattern     *)
(* remover, the message filter, the per-message driver and the batch       *)
(* fan-out.                                                                *)
(*                                                                         *)
(* A Python str is a sequence of characters and a character is a           *)
(* one-character string; the grave accent and the characters outside       *)
(* ASCII are written by their code points ("U+0060", "U+00E9").  A regular *)
(* expression is a tree of records and Match is a backtracking matcher     *)
(* with the priorities of Python's re (leftmost alternative first, greedy  *)
(* or lazy repetition).                                                    *)
(***************************************************************************)
EXTENDS Integers, Sequences, FiniteSets, TLC

(***************************************************************************)
(* Characters and the character classes of re (str patterns).              *)
(***************************************************************************)
Digit == {"0","1","2","3","4","5","6","7","8","9"}
LowerCase == {"a","b","c","d","e","f","g","h","i","j","k","l","m",
              "n","o","p","q","r","s","t","u","v","w","x","y","z"}
UpperCase == {"A","B","C","D","E","F","G","H","I","J","K","L","M",
              "N","O","P","Q","R","S","T","U","V","W","X","Y","Z"}
\* string.punctuation
punctuation == {"!","\"","#","<<",">>%","&","'","(",")","*","+",",","-",".","/",
                ":",";","<","=",">","?","@","[","\\","]","^","_","U+0060","{","|","}","~"}
\* whitespace of str.strip, str.split and \s; U+00A0 is the one outside ASCII
AsciiSpace == {" ","\t","\n","\r","\f"}
Space == AsciiSpace \cup {"U+00A0"}
\* str.isascii: every character below U+0080
AsciiChar == Digit \cup LowerCase \cup UpperCase \cup punctuation \cup AsciiSpace
\* \w: letters, digits and underscore, of any script
WordChar == Digit \cup LowerCase \cup UpperCase \cup {"_","U+00E9"}

\* str.lower on one character (re.IGNORECASE compares case-folded characters)
ToLower(c) ==
  CASE c = "A" -> "a" [] c = "B" -> "b" [] c = "C" -> "c" [] c = "D" -> "d"
    [] c = "E" -> "e" [] c = "F" -> "f" [] c = "G" -> "g" [] c = "H" -> "h"
    [] c = "I" -> "i" [] c = "J" -> "j" [] c = "K" -> "k" [] c = "L" -> "l"
    [] c = "M" -> "m" [] c = "N" -> "n" [] c = "O" -> "o" [] c = "P" -> "p"
    [] c = "Q" -> "q" [] c = "R" -> "r" [] c = "S" -> "s" [] c = "T" -> "t"
    [] c = "U" -> "u" [] c = "V" -> "v" [] c = "W" -> "w" [] c = "X" -> "x"
    [] c = "Y" -> "y" [] c = "Z" -> "z" [] OTHER -> c

(***************************************************************************)
(* Regular expressions.                                                    *)
(***************************************************************************)
In(S)        == [t |-> "set", s |-> S]                  \* [...]
NotIn(S)     == [t |-> "nset", s |-> S]                 \* [^...]
Lit(w)       == [t |-> "lit", w |-> w, ci |-> FALSE]    \* literal text
LitI(w)      == [t |-> "lit", w |-> w, ci |-> TRUE]     \* literal text, IGNORECASE
Cat(rs)      == [t |-> "cat", rs |-> rs]                \* r1 r2 ...
Alt(rs)      == [t |-> "alt", rs |-> rs]                \* r1|r2|...
Rep(r, lo, hi, greedy) == [t |-> "rep", r |-> r, lo |-> lo, hi |-> hi, greedy |-> greedy]
Unbounded    == -1
Star(r)      == Rep(r, 0, Unbounded, TRUE)              \* r*
Plus(r)      == Rep(r, 1, Unbounded, TRUE)              \* r+
LazyStar(r)  == Rep(r, 0, Unbounded, FALSE)             \* r*?
LazyPlus(r)  == Rep(r, 1, Unbounded, FALSE)             \* r+?
Opt(r)       == Rep(r, 0, 1, TRUE)                      \* r?
Bol          == [t |-> "bol"]                           \* ^
Eol          == [t |-> "eol"]                           \* $
Look(r)      == [t |-> "look", r |-> r]                 \* (?=r)
Mark         == [t |-> "mark"]                          \* a group boundary
AnyChar      == NotIn({"\n"})                           \* .
S_           == In(Space)                               \* \s
NonS         == NotIn(Space)                            \* \S
W_           == In(WordChar)                            \* \w
D_           == In(Digit)                               \* \d

Fail == <<>>

\* whether the one-character expression r (a class or its complement) takes c
Takes(r, c) == IF r.t = "set" THEN c \in r.s ELSE c \notin r.s

\* how many characters of x from offset i on r takes in a row
RunLength(r, x, i) ==
  CHOOSE n \in 0..(Len(x) - i) :
    /\ \A j \in 1..n : Takes(r, x[i+j])
    /\ n = Len(x) - i \/ ~Takes(r, x[i+n+1])

\* The first match, in re's backtracking order, of the regular expressions rs
\* one after the other in x from offset i: the offsets of the Marks passed and
\* then the end offset; Fail when there is none.  A repetition of a character
\* class tries its counts in order (longest first when greedy, shortest first
\* when lazy); any other repetition unfolds one round at a time.
RECURSIVE Match(_, _, _)
Match(rs, x, i) ==
  IF Len(rs) = 0 THEN <<i>>
  ELSE LET r == Head(rs)
           rest == Tail(rs)
       IN CASE r.t \in {"set", "nset"} ->
                 IF i < Len(x) /\ Takes(r, x[i+1]) THEN Match(rest, x, i+1) ELSE Fail
            [] r.t = "lit" ->
                 IF /\ i + Len(r.w) <= Len(x)
                    /\ \A k \in 1..Len(r.w) :
                         IF r.ci THEN ToLower(x[i+k]) = ToLower(r.w[k])
                                 ELSE x[i+k] = r.w[k]
                 THEN Match(rest, x, i + Len(r.w)) ELSE Fail
            [] r.t = "cat" -> Match(r.rs \o rest, x, i)
            [] r.t = "alt" ->
                 IF Len(r.rs) = 0 THEN Fail
                 ELSE LET m == Match(<<Head(r.rs)>> \o rest, x, i)
                      IN IF m # Fail THEN m
                         ELSE Match(<<Alt(Tail(r.rs))>> \o rest, x, i)
            [] r.t = "rep" /\ r.r.t \in {"set", "nset"} ->
                 LET run == RunLength(r.r, x, i)
                     most == IF r.hi # Unbounded /\ r.hi < run THEN r.hi ELSE run
                     tries == {<<n, Match(rest, x, i + n)>> : n \in r.lo..most}
                     good == {t \in tries : t[2] # Fail}
                     best == CHOOSE t \in good : \A u \in good :
                               IF r.greedy THEN u[1] <= t[1] ELSE t[1] <= u[1]
                 IN IF good = {} THEN Fail ELSE best[2]
            [] r.t = "rep" /\ r.r.t \notin {"set", "nset"} ->
                 LET less == IF r.hi = Unbounded THEN Unbounded ELSE r.hi - 1
                     more == Match(<<r.r, Rep(r.r, IF r.lo > 0 THEN r.lo - 1 ELSE 0,
                                              less, r.greedy)>> \o rest, x, i)
                     stop == Match(rest, x, i)
                 IN IF r.lo > 0 THEN more
                    ELSE IF r.hi = 0 THEN stop
                    ELSE IF r.greedy THEN (IF more # Fail THEN more ELSE stop)
                    ELSE (IF stop # Fail THEN stop ELSE more)
            [] r.t = "bol" -> IF i = 0 THEN Match(rest, x, i) ELSE Fail
            [] r.t = "eol" ->
                 IF i = Len(x) \/ (i = Len(x) - 1 /\ x[Len(x)] = "\n")
                 THEN Match(rest, x, i) ELSE Fail
            [] r.t = "look" ->
                 IF Match(<<r.r>>, x, i) # Fail THEN Match(rest, x, i) ELSE Fail
            [] r.t = "mark" ->
                 LET m == Match(rest, x, i) IN IF m = Fail THEN Fail ELSE <<i>> \o m

\* re.match(r, x): r matches at the start of x
ReMatch(r, x) == Match(<<r>>, x, 0) # Fail

\* re.search(r, x): r matches somewhere in x
ReSearch(r, x) == \E i \in 0..Len(x) : Match(<<r>>, x, i) # Fail

\* The non-empty matches of r in x that start at offset i or behind it, each
\* as <<start, match>>.  No pattern of this program matches the empty string.
MatchesFrom(r, x, i) ==
  {t \in {<<j, Match(<<r>>, x, j)>> : j \in i..(Len(x) - 1)} :
     t[2] # Fail /\ t[2][Len(t[2])] > t[1]}
Leftmost(found) == CHOOSE t \in found : \A u \in found : t[1] <= u[1]

\* what a match m at offset j is replaced with: a pattern with two Marks keeps
\* the text before the first and behind the second (the template \1 repl \3)
Expand(repl, x, j, m) ==
  IF Len(m) = 3 THEN SubSeq(x, j+1, m[1]) \o repl \o SubSeq(x, m[2]+1, m[3])
  ELSE repl

\* re.sub(r, repl, x) from offset i on: the leftmost match is replaced and the
\* scan goes on behind it.
RECURSIVE SubFrom(_, _, _, _)
SubAt(r, repl, x, i, first) ==
  SubSeq(x, i+1, first[1]) \o Expand(repl, x, first[1], first[2])
  \o SubFrom(r, repl, x, first[2][Len(first[2])])
SubIn(r, repl, x, i, found) ==
  IF found = {} THEN SubSeq(x, i+1, Len(x))
  ELSE SubAt(r, repl, x, i, Leftmost(found))
SubFrom(r, repl, x, i) == SubIn(r, repl, x, i, MatchesFrom(r, x, i))
ReSub(r, repl, x) == IF Len(x) = 0 THEN x ELSE SubFrom(r, repl, x, 0)

(***************************************************************************)
(* str helpers.                                                            *)
(***************************************************************************)
\* x.lstrip(chars), x.rstrip(chars), x.strip()
RECURSIVE LStrip(_, _)
LStrip(x, chars) ==
  IF Len(x) > 0 /\ Head(x) \in chars THEN LStrip(Tail(x), chars) ELSE x
RECURSIVE RStrip(_, _)
RStrip(x, chars) ==
  IF Len(x) > 0 /\ x[Len(x)] \in chars THEN RStrip(SubSeq(x, 1, Len(x) - 1), chars) ELSE x
Strip(x) == RStrip(LStrip(x, Space), Space)

\* x.startswith(prefix)
StartsWith(x, prefix) == Len(prefix) <= Len(x) /\ SubSeq(x, 1, Len(prefix)) = prefix

(***************************************************************************)
(* The pattern remover.                                                    *)
(***************************************************************************)
\* get_special_tokens
special_tokens ==
  [email |-> <<"[","E","M","A","I","L","]">>, url |-> <<"[","U","R","L","]">>, at_pattern |-> <<"[","N","I","C","K","N","A","M","E","]">>,
   sha |-> <<"[","C","O","M","M","I","T","_","I","D","]">>, issue_ref |-> <<"[","I","S","S","U","E","_","I","D","]">>]

NoLeadRun    == Lit(<<>>)                                    \* no leading run
LeadRun      == Star(In({":","-"} \cup Space))               \* [:\-\s]*
TailRun      == Star(In({":",",",".","!","?",";","~"}))      \* [:,.!?;~]*
SpaceOrEnd   == Alt(<<S_, Eol>>)                             \* (\s|$)
SpaceOrStart == Alt(<<S_, Bol>>)                             \* (\s|^)

\* _remove_pattern_generic: without a replacement, one substitution anchored at
\* the start of the line and one behind a whitespace character; with one, the
\* match of the pattern alone is replaced (\1 and \3 are kept).
_remove_pattern_generic(x, pattern, replace_pattern) ==
  IF replace_pattern = <<>>
  THEN ReSub(Cat(<<S_, LeadRun, pattern, TailRun, Look(SpaceOrEnd)>>), <<>>,
             ReSub(Cat(<<Bol, LeadRun, pattern, TailRun, SpaceOrEnd>>), <<>>, x))
  ELSE ReSub(Cat(<<SpaceOrStart, LeadRun, Mark, pattern, Mark, TailRun, SpaceOrEnd>>),
             replace_pattern, x)

OpenBracket  == Opt(In({"[","(","{","<"}))                   \* [\[\({<]?
CloseBracket == Opt(In({"]",")","}",">"}))                   \* [\]\)}>]?

\* [\[\({<]?\w[\w.\-+]*?@[\w.\-]+?\.[\w.\-]+?[\]\)}>]?
email_pattern ==
  Cat(<<OpenBracket, W_, LazyStar(In(WordChar \cup {".","-","+"})), Lit(<<"@">>),
        LazyPlus(In(WordChar \cup {".","-"})), Lit(<<".">>),
        LazyPlus(In(WordChar \cup {".","-"})), CloseBracket>>)
_remove_emails(message, replace_pattern) ==
  _remove_pattern_generic(message, email_pattern, replace_pattern)

\* https?://[-a-zA-Z0-9@:%._+~#?=/&]+?
url_pattern ==
  Cat(<<Lit(<<"h","t","t","p">>), Opt(Lit(<<"s">>)), Lit(<<":","/","/">>),
        LazyPlus(In(LowerCase \cup UpperCase \cup Digit \cup
                    {"-","@",":","%",".","_","+","~","#","?","=","/","&"}))>>)
_remove_urls(message, replace_pattern) ==
  _remove_pattern_generic(message, url_pattern, replace_pattern)

\* @\S+?
at_pattern == Cat(<<Lit(<<"@">>), LazyPlus(NonS)>>)
_remove_at_pattern(message, replace_pattern) ==
  _remove_pattern_generic(message, at_pattern, replace_pattern)

\* \d\d\d\d-\d\d-\d\d and \d\d-\d\d-\d\d\d\d
date_ymd == Cat(<<D_, D_, D_, D_, Lit(<<"-">>), D_, D_, Lit(<<"-">>), D_, D_>>)
date_dmy == Cat(<<D_, D_, Lit(<<"-">>), D_, D_, Lit(<<"-">>), D_, D_, D_, D_>>)

MinShaLen == 7
\* sha_prefix + [\dA-Fa-f-]{7,}
sha_pattern(sha_prefix) ==
  Cat(<<Lit(sha_prefix),
        Rep(In(Digit \cup {"A","B","C","D","E","F","a","b","c","d","e","f","-"}),
            MinShaLen, Unbounded, TRUE)>>)
sha_prefixes == << <<>>, <<"r","e","f",":">>, <<"I">> >>

\* _remove_sha: the loop over the prefixes from the k-th on (nothing is left
\* to remove from an empty x)
RECURSIVE remove_sha_from(_, _, _)
remove_sha_from(k, x, replace_pattern) ==
  IF Len(x) = 0 \/ k > Len(sha_prefixes) THEN x
  ELSE remove_sha_from(k + 1,
         _remove_pattern_generic(x, sha_pattern(sha_prefixes[k]), replace_pattern),
         replace_pattern)
\* _remove_sha without the test for a date
remove_sha_despite_date(message, replace_pattern) ==
  remove_sha_from(1, message, replace_pattern)
\* _remove_sha: nothing is removed from a line that holds a date
_remove_sha(message, replace_pattern) ==
  IF ReSearch(date_ymd, message) \/ ReSearch(date_dmy, message) THEN message
  ELSE remove_sha_from(1, message, replace_pattern)

\* #\d+, GH-\d+, gh-\d+, [A-Z]\w+-\d+, each between optional brackets
issue_patterns ==
  << Cat(<<OpenBracket, Lit(<<"#">>), Plus(D_), CloseBracket>>),
     Cat(<<OpenBracket, Lit(<<"G","H","-">>), Plus(D_), CloseBracket>>),
     Cat(<<OpenBracket, Lit(<<"g","h","-">>), Plus(D_), CloseBracket>>),
     Cat(<<OpenBracket, In(UpperCase), Plus(W_), Lit(<<"-">>), Plus(D_), CloseBracket>>) >>

\* without a replacement each round of _remove_issue_ref ends with
\* x.lstrip("-–:")
lstrip_issue(x, replace_pattern) ==
  IF replace_pattern = <<>> THEN LStrip(x, {"-","U+2013",":"}) ELSE x
\* _remove_issue_ref: the loop over the patterns from the k-th on (nothing is
\* left to remove from an empty x)
RECURSIVE remove_issue_ref_from(_, _, _)
remove_issue_ref_from(k, x, replace_pattern) ==
  IF Len(x) = 0 \/ k > Len(issue_patterns) THEN x
  ELSE remove_issue_ref_from(k + 1,
         lstrip_issue(_remove_pattern_generic(x, issue_patterns[k], replace_pattern),
                      replace_pattern),
         replace_pattern)
_remove_issue_ref(message, replace_pattern) ==
  remove_issue_ref_from(1, message, replace_pattern)

Sep  == Alt(<<Lit(<<"-">>), Lit(<<" ">>), Lit(<<>>)>>)             \* (-| |)
Sep1 == Alt(<<Lit(<<"-">>), Lit(<<" ">>)>>)                        \* (-| )
\* the signature keys matched with re.IGNORECASE, at the start or behind whitespace
signature_patterns ==
  << Alt(<< Cat(<<LitI(<<"s","i","g","n","e","d">>), Sep, LitI(<<"o","f","f">>), Sep, LitI(<<"b","y">>)>>),
            Cat(<<LitI(<<"c","o">>), Opt(Sep), LitI(<<"a","u","t","h","o","r","e","d">>), Sep, LitI(<<"b","y">>)>>),
            Cat(<<LitI(<<"a","l","s","o">>), Sep, LitI(<<"b","y">>)>>),
            Cat(<<LitI(<<"r","e","v","i","e","w","e">>), Opt(LitI(<<"d">>)), Sep, Alt(<<LitI(<<"b","y">>), LitI(<<"o","n">>)>>)>>),
            Cat(<<LitI(<<"f","o","r","m","e","r">>), Sep, LitI(<<"c","o","m","m","i","t">>), Sep, LitI(<<"i","d">>)>>),
            LitI(<<"g","i","t","-","s","v","n","-","i","d">>), LitI(<<"a","u","t","o","-","s","u","b","m","i","t">>), LitI(<<"c","o","m","m","i","t","-","q","u","e","u","e">>) >>),
     Alt(<<LitI(<<"C","r","e","a","t","e","d"," ","b","y"," ","M","O","E">>), LitI(<<"M","O","E","_","M","I","G","R","A","T","E","D","_","R","E","V","I","D">>)>>),
     Alt(<<LitI(<<"f","b","s","h","i","p","i","t","-","s","o","u","r","c","e","-","i","d">>), LitI(<<"D","i","f","f","e","r","e","n","t","i","a","l"," ","R","e","v","i","s","i","o","n">>),
           Cat(<<LitI(<<"P","u","l","l","e","d">>), Sep1, LitI(<<"b","y">>)>>)>>),
     Alt(<<LitI(<<"C","h","a","n","g","e","-","I","d">>), LitI(<<"P","i","p","e","r","O","r","i","g","i","n","-","R","e","v","I","d">>), LitI(<<"B","A","Z","E","L","_","V","E","R","S","I","O","N","_","R","E","V","_","I","D">>)>>),
     LitI(<<"K","u","b","e","r","n","e","t","e","s","-","c","o","m","m","i","t">>),
     Alt(<<Cat(<<LitI(<<"R","e","v","i","s","i","o","n",":"," ","r">>), Star(D_)>>), LitI(<<"S","a","n","d","b","o","x"," ","t","a","s","k"," ","I","D">>),
           LitI(<<"G","l","y","c","i","n","e"," ","r","u","n"," ","I","D">>)>>),
     Alt(<<LitI(<<"(","M","e","r","g","e","d"," ","f","r","o","m">>), Cat(<<LitI(<<"(","c","h","e","r","r","y">>), Sep, LitI(<<"p","i","c","k","e","d"," ","f","r","o","m">>)>>),
           Cat(<<LitI(<<"t","r","a","c","k","e","d">>), Sep, LitI(<<"o","n">>)>>)>>) >>
\* the keys matched as written, at the start of the line only: (Bug:|BUG=|FIXES=|R=)
anchored_signature_pattern ==
  Alt(<<Lit(<<"B","u","g",":">>), Lit(<<"B","U","G","=">>), Lit(<<"F","I","X","E","S","=">>), Lit(<<"R","=">>)>>)

\* _remove_signatures: the loop over the patterns from the k-th on, each
\* cutting the line from its key on (nothing is left to cut from an empty x)
RECURSIVE remove_signatures_from(_, _)
remove_signatures_from(k, x) ==
  IF Len(x) = 0 \/ k > Len(signature_patterns) THEN x
  ELSE remove_signatures_from(k + 1,
         ReSub(Cat(<<Alt(<<Bol, S_>>), signature_patterns[k], LazyStar(AnyChar), Eol>>),
               <<>>, x))
\* _remove_signatures without the loop over the case-insensitive keys
remove_anchored_signatures(message) ==
  ReSub(Cat(<<Bol, anchored_signature_pattern, LazyStar(AnyChar), Eol>>), <<>>, message)
_remove_signatures(message) ==
  ReSub(Cat(<<Bol, anchored_signature_pattern, LazyStar(AnyChar), Eol>>), <<>>,
        remove_signatures_from(1, message))

\* _remove_all_patterns
replacement(name, replace_patterns) ==
  IF replace_patterns THEN special_tokens[name] ELSE <<>>
_remove_all_patterns(line, replace_patterns) ==
  Strip(
    _remove_sha(
      _remove_at_pattern(
        _remove_signatures(
          _remove_issue_ref(
            _remove_urls(
              _remove_emails(line, replacement("email", replace_patterns)),
              replacement("url", replace_patterns)),
            replacement("issue_ref", replace_patterns))),
        replacement("at_pattern", replace_patterns)),
      replacement("sha", replace_patterns)))

(***************************************************************************)
(* Python values and outcomes.  A message is a str or, in a malformed row, *)
(* a float; a call returns a value or raises.                              *)
(***************************************************************************)
Str(x)      == [type |-> "str", v |-> x]
NaN         == [type |-> "float", v |-> <<>>]
Return(v)   == [raised |-> "", value |-> v]
Raise(e, v) == [raised |-> e, value |-> v]      \* v: a placeholder, never read

\* x.split(sep) for a separator that is not empty, from offset i on
RECURSIVE SplitFrom(_, _, _)
SplitFrom(x, sep, i) ==
  LET hits == {j \in i..(Len(x) - Len(sep)) : SubSeq(x, j+1, j+Len(sep)) = sep}
      j == CHOOSE h \in hits : \A g \in hits : h <= g
  IN IF hits = {} THEN <<SubSeq(x, i+1, Len(x))>>
     ELSE <<SubSeq(x, i+1, j)>> \o SplitFrom(x, sep, j + Len(sep))
\* x.split(sep): ValueError("empty separator") when sep is empty
Split(x, sep) ==
  IF Len(sep) = 0 THEN Raise("ValueError", <<>>) ELSE Return(SplitFrom(x, sep, 0))

\* len(x.split()): the number of whitespace-delimited tokens
TokenCount(x) ==
  Cardinality({i \in 1..Len(x) : x[i] \notin Space /\ (i = 1 \/ x[i-1] \in Space)})

\* sep.join(lines)
RECURSIVE Join(_, _)
Join(lines, sep) ==
  IF Len(lines) = 0 THEN <<>>
  ELSE IF Len(lines) = 1 THEN lines[1]
  ELSE lines[1] \o sep \o Join(Tail(lines), sep)

\* x.isascii()
IsAscii(x) == \A i \in 1..Len(x) : x[i] \in AsciiChar

\* x.translate(str.maketrans({key: " {0} ".format(key) for key in punctuation}))
RECURSIVE PadPunctuation(_)
PadPunctuation(x) ==
  IF Len(x) = 0 THEN <<>>
  ELSE (IF Head(x) \in punctuation THEN <<" ", Head(x), " ">> ELSE <<Head(x)>>)
       \o PadPunctuation(Tail(x))

(***************************************************************************)
(* The message filter.                                                     *)
(***************************************************************************)
\* a catalogue that takes no period
NoDot == Lit(<<>>)
OptDot == Opt(Lit(<<" ",".">>))                                          \* ( \.)?
Version == Cat(<<Opt(LitI(<<"v">>)), Plus(In(Digit \cup {" ", "."}))>>) \* (v)?[ \d.]+
\* the patterns of _filter_trivial_or_bot, matched with re.IGNORECASE
trivial_patterns ==
  << \* ^ignore update \' .* \.$
     Cat(<<Bol, LitI(<<"i","g","n","o","r","e"," ","u","p","d","a","t","e"," ","'"," ">>), Star(AnyChar), Lit(<<" ",".">>), Eol>>),
     \* ^update(d)? (changelog|gitignore|readme( . md| file)?)( \.)?$
     Cat(<<Bol, LitI(<<"u","p","d","a","t","e">>), Opt(LitI(<<"d">>)), Lit(<<" ">>),
           Alt(<<LitI(<<"c","h","a","n","g","e","l","o","g">>), LitI(<<"g","i","t","i","g","n","o","r","e">>),
                 Cat(<<LitI(<<"r","e","a","d","m","e">>),
                       Opt(Alt(<<Cat(<<Lit(<<" ">>), AnyChar, LitI(<<" ","m","d">>)>>),
                                 LitI(<<" ","f","i","l","e">>)>>))>>)>>),
           OptDot, Eol>>),
     \* ^prepare version (v)?[ \d.]+$
     Cat(<<Bol, LitI(<<"p","r","e","p","a","r","e"," ","v","e","r","s","i","o","n"," ">>), Version, Eol>>),
     \* ^bump (up )?version( number| code)?( to (v)?[ \d.]+( - snapshot)?)?( \.)?$
     Cat(<<Bol, LitI(<<"b","u","m","p"," ">>), Opt(LitI(<<"u","p"," ">>)), LitI(<<"v","e","r","s","i","o","n">>),
           Opt(Alt(<<LitI(<<" ","n","u","m","b","e","r">>), LitI(<<" ","c","o","d","e">>)>>)),
           Opt(Cat(<<LitI(<<" ","t","o"," ">>), Version, Opt(LitI(<<" ","-"," ","s","n","a","p","s","h","o","t">>))>>)),
           OptDot, Eol>>),
     \* ^modify (dockerfile|makefile)( \.)?$
     Cat(<<Bol, LitI(<<"m","o","d","i","f","y"," ">>), Alt(<<LitI(<<"d","o","c","k","e","r","f","i","l","e">>), LitI(<<"m","a","k","e","f","i","l","e">>)>>),
           OptDot, Eol>>),
     \* ^update submodule(s)?( \.)?$
     Cat(<<Bol, LitI(<<"u","p","d","a","t","e"," ","s","u","b","m","o","d","u","l","e">>), Opt(LitI(<<"s">>)), OptDot, Eol>>) >>
\* ^updated? \w+( \. \w+)?$
generic_update_pattern ==
  Cat(<<Bol, LitI(<<"u","p","d","a","t","e">>), Opt(LitI(<<"d">>)), Lit(<<" ">>), Plus(W_),
        Opt(Cat(<<Lit(<<" ","."," ">>), Plus(W_)>>)), Eol>>)

\* the message as the patterns expect it: stripped, every punctuation character
\* between spaces, runs of spaces collapsed, stripped again
Normalized(message) ==
  Strip(ReSub(Plus(In({" "})), <<" ">>, PadPunctuation(Strip(message))))

\* _filter_trivial_or_bot
MatchesTrivial(m) ==
  \/ \E k \in 1..Len(trivial_patterns) : ReMatch(trivial_patterns[k], m)
  \/ ReMatch(generic_update_pattern, m)
_filter_trivial_or_bot(message) == MatchesTrivial(Normalized(message))

\* _filter_merge, _filter_revert
_filter_merge(message) == StartsWith(message, <<"M","e","r","g","e">>)
_filter_revert(message) == StartsWith(message, <<"R","e","v","e","r","t">>)

\* str.strip().startswith("*")
IsBullet(l) == StartsWith(Strip(l), <<"*">>)

\* a squash rule that asks a bullet of every line
squash_if_all_bullets(message, line_sep) ==
  IF Len(line_sep) = 0 THEN Raise("ValueError", FALSE)
  ELSE Return(Len(SplitFrom(message, line_sep, 0)) > 1
              /\ \A k \in 1..Len(SplitFrom(message, line_sep, 0)) :
                   IsBullet(SplitFrom(message, line_sep, 0)[k]))
\* _filter_squash
_filter_squash(message, line_sep) ==
  LET split == Split(message, line_sep)
      message_lines == split.value
  IN IF split.raised # "" THEN Raise(split.raised, FALSE)
     ELSE IF Len(message_lines) = 1 THEN Return(FALSE)
     ELSE IF \A k \in 1..Len(message_lines) : IsBullet(message_lines[k]) THEN Return(TRUE)
     ELSE IF \A k \in 2..Len(message_lines) : IsBullet(message_lines[k]) THEN Return(TRUE)
     ELSE Return(FALSE)

\* _filter: the first rule that holds discards the message
_filter(message, line_sep) ==
  IF message.type # "str" THEN Return(TRUE)
  ELSE IF ~IsAscii(message.v) THEN Return(TRUE)
  ELSE IF TokenCount(message.v) = 1 THEN Return(TRUE)
  ELSE IF _filter_trivial_or_bot(message.v) THEN Return(TRUE)
  ELSE IF _filter_merge(message.v) THEN Return(TRUE)
  ELSE IF _filter_revert(message.v) THEN Return(TRUE)
  ELSE _filter_squash(message.v, line_sep)

(***************************************************************************)
(* The per-message driver.                                                 *)
(***************************************************************************)
\* the lines of the message, each through the pattern remover
RECURSIVE CleanLines(_, _)
CleanLines(message_lines, replace_patterns) ==
  IF Len(message_lines) = 0 THEN <<>>
  ELSE <<_remove_all_patterns(Head(message_lines), replace_patterns)>>
       \o CleanLines(Tail(message_lines), replace_patterns)

\* [line for line in message_lines if line]
NonEmpty(message_lines) == SelectSeq(message_lines, LAMBDA l : Len(l) > 0)

\* _process, statement by statement
FirstPass(message) == _filter(message, <<"\n">>)
CleanedLines(message, replace_patterns) ==
  CleanLines(SplitFrom(message.v, <<"\n">>, 0), replace_patterns)
Rejoined(message_lines, line_sep) == Join(NonEmpty(message_lines), line_sep)
Kept(joined, second) ==
  IF second.raised # "" THEN Raise(second.raised, <<>>)
  ELSE IF second.value THEN Return(<<>>)
  ELSE Return(joined)
Filtered(joined, line_sep) == Kept(joined, _filter(Str(joined), line_sep))
\* a driver without the second filter pass
Unfiltered(message_lines, line_sep) == Return(Rejoined(message_lines, line_sep))
SecondPass(message_lines, line_sep) ==
  Filtered(Rejoined(message_lines, line_sep), line_sep)
_process(message, replace_patterns, line_sep) ==
  IF FirstPass(message).value THEN Return(<<>>)
  ELSE SecondPass(CleanedLines(message, replace_patterns), line_sep)

(***************************************************************************)
(* State.                                                                  *)
(***************************************************************************)
VARIABLES
  pc,                \* the operation applied last
  words,             \* the words the line is made of
  prefix,            \* the part of the line before a signature key
  line,              \* the line given to the pattern remover
  cleaned,           \* what the pattern remover returned for line
  recleaned,         \* what it returned for its own output, or for prefix
  replace_patterns,  \* processing mode: placeholders instead of deletion
  line_sep,          \* processing mode: the caller's line separator
  message,           \* the message given to the filter and to the driver
  discard,           \* the outcome of the filter
  with_period,       \* the outcome of the filter for message + "."
  message_lines,     \* the driver's lines, each through the pattern remover
  result,            \* the outcome of the driver
  chunk,             \* the batch: the messages of its rows, in order
  n_workers,         \* the size of the worker pool
  status,            \* per row: "pending", "running" or "done"
  results,           \* per row: the outcome of its task
  returned           \* the outcome of the batch: the rows kept, as <<row, text>>

removerVars == <<words, prefix, line, cleaned, recleaned>>
modeVars    == <<replace_patterns, line_sep>>
filterVars  == <<message, discard, with_period, message_lines, result>>
batchVars   == <<chunk, n_workers, status, results, returned>>
vars == <<pc, removerVars, modeVars, filterVars, batchVars>>

NoRemover ==
  words = <<>> /\ prefix = <<>> /\ line = <<>> /\ cleaned = <<>> /\ recleaned = <<>>
NoFilter ==
  /\ message = Str(<<>>) /\ discard = Return(FALSE) /\ with_period = Return(FALSE)
  /\ message_lines = <<>> /\ result = Return(<<>>)
NoBatch ==
  /\ chunk = <<>> /\ n_workers = 1 /\ status = <<>> /\ results = <<>>
  /\ returned = Return(<<>>)

\* the sequences of 1 to n elements of S
SeqsUpTo(S, n) == UNION {[1..k -> S] : k \in 1..n}

(***************************************************************************)
(* The pattern remover on one line, and on its own output.                 *)
(***************************************************************************)
MaxWords == 2
Emails     == {<<"a","@","b",".","c">>}
Urls       == {<<"h","t","t","p",":","/","/","x">>}
Mentions   == {<<"@","u">>}
IssueRefs  == {<<"#","1">>, <<"G","H","-","2">>, <<"A","B","-","3">>}
PlainWords == {<<"f","i","x">>, <<"f","o","o">>}
RemoverWords == Emails \cup Urls \cup Mentions \cup IssueRefs \cup PlainWords

InitRemover ==
  /\ pc = "start"
  /\ words \in SeqsUpTo(RemoverWords, MaxWords)
  /\ line = Join(words, <<" ">>)
  /\ prefix = <<>> /\ cleaned = <<>> /\ recleaned = <<>>
  /\ replace_patterns \in BOOLEAN /\ line_sep = <<"\n">>
  /\ NoFilter /\ NoBatch

\* _remove_all_patterns(line, replace_patterns)
RemoveAllPatterns ==
  /\ pc = "start"
  /\ cleaned' = _remove_all_patterns(line, replace_patterns)
  /\ pc' = "cleaned"
  /\ UNCHANGED <<words, prefix, line, recleaned, modeVars, filterVars, batchVars>>

\* _remove_all_patterns on what it returned
RemoveAgain ==
  /\ pc = "cleaned"
  /\ recleaned' = _remove_all_patterns(cleaned, replace_patterns)
  /\ pc' = "recleaned"
  /\ UNCHANGED <<words, prefix, line, cleaned, modeVars, filterVars, batchVars>>

NextRemover == RemoveAllPatterns \/ RemoveAgain
SpecRemover == InitRemover /\ [][NextRemover]_vars

\* C1, as the specification states it: the pattern remover applied to its own
\* output returns that output, in both modes.
C1_Idempotent == pc = "recleaned" => recleaned = cleaned

\* what C2 asks of one word of the line: its canonical token in placeholder
\* mode, nothing in delete mode; any other word as it is
Handled(w, replace) ==
  IF w \in Emails THEN replacement("email", replace)
  ELSE IF w \in Urls THEN replacement("url", replace)
  ELSE IF w \in Mentions THEN replacement("at_pattern", replace)
  ELSE IF w \in IssueRefs THEN replacement("issue_ref", replace)
  ELSE w
HandledLine(ws, replace) ==
  Join(NonEmpty([k \in 1..Len(ws) |-> Handled(ws[k], replace)]), <<" ">>)

\* C2, as the specification states it: every whitespace-delimited email, URL,
\* mention and issue reference of the line is handled; in placeholder mode its
\* token stands in its place between the same spaces, in delete mode nothing
\* of it is left.
C2_EveryOccurrenceHandled ==
  pc = "cleaned" => cleaned = HandledLine(words, replace_patterns)

(***************************************************************************)
(* Commit-hash removal on one line.                                        *)
(***************************************************************************)
Dates     == {<<"2","0","2","3","-","0","4","-","0","1">>, <<"0","1","-","0","4","-","2","0","2","3">>, <<"v","1","2","0","2","3","-","0","4","-","0","1","5">>}
HexTokens == {<<"a","b","c","d","e","f","1">>, <<"r","e","f",":","0","1","2","3","a","b","c","d">>, <<"I","a","b","c","1","2","3","4">>}
ShaWords  == Dates \cup HexTokens \cup {<<"f","i","x">>}

InitSha ==
  /\ pc = "start"
  /\ words \in SeqsUpTo(ShaWords, MaxWords)
  /\ line = Join(words, <<" ">>)
  /\ prefix = <<>> /\ cleaned = <<>> /\ recleaned = <<>>
  /\ replace_patterns \in BOOLEAN /\ line_sep = <<"\n">>
  /\ NoFilter /\ NoBatch

\* _remove_sha(line, replace_pattern), as _remove_all_patterns calls it
RemoveSha ==
  /\ pc = "start"
  /\ cleaned' = _remove_sha(line, replacement("sha", replace_patterns))
  /\ pc' = "sha"
  /\ UNCHANGED <<words, prefix, line, recleaned, modeVars, filterVars, batchVars>>

NextSha == RemoveSha
SpecSha == InitSha /\ [][NextSha]_vars

\* x holds dddd-dd-dd or dd-dd-dddd, read character by character
DigitsAt(x, i, ks) == \A k \in ks : x[i+k] \in Digit
HasDate(x) ==
  \E i \in 0..(Len(x) - 10) :
    \/ DigitsAt(x, i, {1,2,3,4,6,7,9,10}) /\ x[i+5] = "-" /\ x[i+8] = "-"
    \/ DigitsAt(x, i, {1,2,4,5,7,8,9,10}) /\ x[i+3] = "-" /\ x[i+6] = "-"
HasHexToken == \E k \in 1..Len(words) : words[k] \in HexTokens

\* C7: commit-hash removal returns a line that holds a date-shaped substring
\* unchanged, in both modes, whatever hex tokens the line holds besides.
C7_DateLineUnchanged == pc = "sha" /\ HasDate(line) => cleaned = line
\* a line with a date and a hex token has been through _remove_sha
C7_Witness == pc = "sha" /\ HasDate(line) /\ HasHexToken /\ cleaned = line

(***************************************************************************)
(* Trailer lines: a signature key and its value, alone or behind a prefix. *)
(***************************************************************************)
Trailers ==
  {<<"S","i","g","n","e","d","-","o","f","f","-","b","y",":"," ","J"," ","<","a","@","b",".","c",">">>, <<"c","o","-","a","u","t","h","o","r","e","d","-","b","y",":"," ","@","u">>, <<"R","e","v","i","e","w","e","d","-","b","y",":"," ","#","1">>,
   <<"C","h","a","n","g","e","-","I","d",":"," ","I","a","b","c","1","2","3","4">>, <<"g","i","t","-","s","v","n","-","i","d",":"," ","h","t","t","p",":","/","/","x">>}
AnchoredTrailers == {<<"B","u","g",":"," ","#","1">>, <<"B","U","G","=","a","b","c","d","e","f","1">>, <<"F","I","X","E","S","=","#","1">>, <<"R","=","@","u">>}
PrefixWords == {<<"f","i","x">>, <<"#","1">>}
Summary == <<"F","i","x"," ","b","u","g">>

InitSignature ==
  /\ pc = "start"
  /\ \E ws \in {<<>>} \cup SeqsUpTo(PrefixWords, MaxWords) :
       \E t \in Trailers \cup AnchoredTrailers :
         /\ prefix = Join(ws, <<" ">>)
         /\ words = <<t>>
         /\ line = Join(ws \o <<t>>, <<" ">>)
  /\ cleaned = <<>> /\ recleaned = <<>>
  /\ replace_patterns \in BOOLEAN /\ line_sep = <<"\n">>
  /\ NoFilter /\ NoBatch

\* _remove_all_patterns on the line
RemoveFromLine ==
  /\ pc = "start"
  /\ cleaned' = _remove_all_patterns(line, replace_patterns)
  /\ pc' = "line"
  /\ UNCHANGED <<words, prefix, line, recleaned, modeVars, filterVars, batchVars>>

\* _remove_all_patterns on the prefix alone
RemoveFromPrefix ==
  /\ pc = "line"
  /\ recleaned' = _remove_all_patterns(prefix, replace_patterns)
  /\ pc' = "prefix"
  /\ UNCHANGED <<words, prefix, line, cleaned, modeVars, filterVars, batchVars>>

\* _process on a summary line followed by the line
ProcessWithSummary ==
  /\ pc = "prefix"
  /\ message' = Str(Summary \o <<"\n">> \o line)
  /\ message_lines' = CleanedLines(message', replace_patterns)
  /\ result' = _process(message', replace_patterns, line_sep)
  /\ pc' = "processed"
  /\ UNCHANGED <<removerVars, modeVars, discard, with_period, batchVars>>

NextSignature == RemoveFromLine \/ RemoveFromPrefix \/ ProcessWithSummary
SpecSignature == InitSignature /\ [][NextSignature]_vars

TrivialHeads ==
  {<<"u","p","d","a","t","e">>, <<"U","p","d","a","t","e","d">>, <<"p","r","e","p","a","r","e"," ","v","e","r","s","i","o","n">>, <<"b","u","m","p"," ","v","e","r","s","i","o","n">>,
   <<"b","u","m","p"," ","u","p"," ","v","e","r","s","i","o","n"," ","c","o","d","e">>, <<"m","o","d","i","f","y">>, <<"u","p","d","a","t","e"," ","s","u","b","m","o","d","u","l","e">>, <<"i","g","n","o","r","e"," ","u","p","d","a","t","e"," ","'">>}
TrivialTails ==
  {<<"r","e","a","d","m","e">>, <<"R","E","A","D","M","E",".","m","d">>, <<"v","1",".","2">>, <<"t","o"," ","1",".","2">>, <<"-"," ","s","n","a","p","s","h","o","t">>,
   <<"m","a","k","e","f","i","l","e">>, <<"f","o","o">>, <<"x"," ","'">>}

InitTrivial ==
  /\ pc = "start"
  /\ \E h \in TrivialHeads :
       \E ts \in {<<>>} \cup SeqsUpTo(TrivialTails, MaxWords) :
         /\ words = <<h>> \o ts
         /\ message = Str(Join(words, <<" ">>))
  /\ discard = Return(FALSE) /\ with_period = Return(FALSE)
  /\ message_lines = <<>> /\ result = Return(<<>>)
  /\ replace_patterns = FALSE /\ line_sep = <<"\n">>
  /\ prefix = <<>> /\ line = <<>> /\ cleaned = <<>> /\ recleaned = <<>>
  /\ NoBatch

\* _filter_trivial_or_bot(message)
FilterTrivialOrBot ==
  /\ pc = "start"
  /\ discard' = Return(_filter_trivial_or_bot(message.v))
  /\ pc' = "without"
  /\ UNCHANGED <<removerVars, modeVars, message, with_period, message_lines,
                 result, batchVars>>

\* _filter_trivial_or_bot(message + ".")
FilterWithPeriod ==
  /\ pc = "without"
  /\ with_period' = Return(_filter_trivial_or_bot(message.v \o <<".">>))
  /\ pc' = "with"
  /\ UNCHANGED <<removerVars, modeVars, message, discard, message_lines,
                 result, batchVars>>

NextTrivial == FilterTrivialOrBot \/ FilterWithPeriod
SpecTrivial == InitTrivial /\ [][NextTrivial]_vars

\* C5, as the specification states it: the rule gives the same result for a
\* message and for the message followed by a period.
C5_PeriodOptional == pc = "with" => with_period = discard

\* the message, normalized, has the k-th shape of the catalogue
HasShape(k) == ReMatch(trivial_patterns[k], Normalized(message.v))
HasGenericShape == ReMatch(generic_update_pattern, Normalized(message.v))

\* C5: a message ending in neither a period nor whitespace that has one of the shapes update(d)
\* changelog/gitignore/readme, prepare version, bump version, modify
\* dockerfile/makefile or update submodule(s) is discarded with and without a
\* period behind it; a message that has the generic shape update(d) WORD[.WORD]
\* and none of those is discarded without the period and kept with it.
C5_PeriodOptionalInListedShapes ==
  pc = "with" =>
    /\ message.v[Len(message.v)] \notin Space \cup {"."} /\ (\E k \in 2..Len(trivial_patterns) : HasShape(k)) =>
         discard = Return(TRUE) /\ with_period = Return(TRUE)
    /\ HasGenericShape /\ ~(\E k \in 1..Len(trivial_patterns) : HasShape(k)) =>
         discard = Return(TRUE) /\ with_period = Return(FALSE)
\* a bump-version message has been through the rule with and without a period
C5_Witness ==
  /\ pc = "with" /\ HasShape(4)
  /\ discard = Return(TRUE) /\ with_period = Return(TRUE)

(***************************************************************************)
(* The filter and the per-message driver on one message.                   *)
(***************************************************************************)
MaxLines == 2
DriverLines ==
  {<<"F","i","x","e","s"," ","-"," ","#","1","2","3">>, <<"f","i","x"," ","b","u","g">>, <<"*"," ","a","d","d"," ","a","@","b",".","c">>, <<"a"," ","*","b">>, <<"#","1"," ","M","e","r","g","e"," ","x">>,
   <<"f","i","x"," ">> \o <<"U+00E9">>}
Separators == {<<"\n">>, <<" ">>, <<>>}

InitDriver ==
  /\ pc = "start"
  /\ \/ message = NaN
     \/ \E ls \in SeqsUpTo(DriverLines, MaxLines) : message = Str(Join(ls, <<"\n">>))
  /\ replace_patterns \in BOOLEAN /\ line_sep \in Separators
  /\ discard = Return(FALSE) /\ with_period = Return(FALSE)
  /\ message_lines = <<>> /\ result = Return(<<>>)
  /\ NoRemover /\ NoBatch

\* _filter(message, line_sep)
Filter ==
  /\ pc = "start"
  /\ discard' = _filter(message, line_sep)
  /\ pc' = "filtered"
  /\ UNCHANGED <<removerVars, modeVars, message, with_period, message_lines,
                 result, batchVars>>

\* _filter_squash(message, line_sep)
FilterSquash ==
  /\ pc = "start" /\ message.type = "str"
  /\ discard' = _filter_squash(message.v, line_sep)
  /\ pc' = "squash"
  /\ UNCHANGED <<removerVars, modeVars, message, with_period, message_lines,
                 result, batchVars>>

\* _process(message, replace_patterns, line_sep); message_lines is its list
\* of cleaned lines, empty when the first pass discards the message
Process ==
  /\ pc = "start"
  /\ message_lines' = IF FirstPass(message).value THEN <<>>
                      ELSE CleanedLines(message, replace_patterns)
  /\ result' = _process(message, replace_patterns, line_sep)
  /\ pc' = "processed"
  /\ UNCHANGED <<removerVars, modeVars, message, discard, with_period, batchVars>>

\* _filter(r, line_sep) on a string r that _process returned
FilterOutput ==
  /\ pc = "processed" /\ result.raised = "" /\ result.value # <<>>
  /\ discard' = _filter(Str(result.value), line_sep)
  /\ pc' = "refiltered"
  /\ UNCHANGED <<removerVars, modeVars, message, with_period, message_lines,
                 result, batchVars>>

NextDriver == Filter \/ FilterSquash \/ Process \/ FilterOutput
SpecDriver == InitDriver /\ [][NextDriver]_vars

IssueMessage == Str(<<"F","i","x","e","s"," ","-"," ","#","1","2","3">>)
IssueCase ==
  pc = "processed" /\ message = IssueMessage /\ ~replace_patterns /\ line_sep = <<"\n">>

\* C3, as the specification states it: in delete mode, with the separator
\* "\n", the driver maps "Fixes - #123" to "Fixes".
C3_DriverReturnsFixes == IssueCase => result = Return(<<"F","i","x","e","s">>)

\* C3: in delete mode, with the separator "\n", the pattern remover leaves
\* "Fixes" of the line "Fixes - #123", with no dash, and the driver returns ""
\* for the message, because the second filter pass discards a message of one
\* token.
C3_DriverRejectsFixes ==
  IssueCase => message_lines = <<<<"F","i","x","e","s">>>> /\ result = Return(<<>>)
\* the driver has processed "Fixes - #123" in delete mode
C3_Witness == IssueCase /\ message_lines = <<<<"F","i","x","e","s">>>> /\ result = Return(<<>>)

\* C6, as the specification states it: the filter returns a boolean for every
\* string message and separator, and discard for a message that is no string;
\* the driver never fails.
C6_FilterTotal ==
  /\ pc = "filtered" => discard.raised = "" /\ discard.value \in BOOLEAN
  /\ pc = "filtered" /\ message.type # "str" => discard = Return(TRUE)
  /\ pc = "processed" => result.raised = ""

\* l.strip() begins with "*", read character by character
StarFirst(l) ==
  \E i \in 1..Len(l) : l[i] = "*" /\ \A j \in 1..(i - 1) : l[j] \in Space
\* x has more than one line under sep and a bullet on every line after the first
SquashShape(x, sep) ==
  /\ sep # <<>>
  /\ Len(SplitFrom(x, sep, 0)) > 1
  /\ \A k \in 2..Len(SplitFrom(x, sep, 0)) : StarFirst(SplitFrom(x, sep, 0)[k])

\* C8: the squash rule discards exactly the messages that have more than one
\* line under the separator and a bullet on every line after the first; it
\* never discards a message of one line; the driver returns "" for a message
\* of that shape under "\n", in both modes and for every separator.
C8_SquashRule ==
  /\ pc = "squash" =>
       (discard = Return(TRUE) <=> SquashShape(message.v, line_sep))
  /\ pc = "squash" /\ line_sep # <<>> /\ Len(SplitFrom(message.v, line_sep, 0)) = 1 =>
       discard = Return(FALSE)
  /\ pc = "processed" /\ message.type = "str" /\ SquashShape(message.v, <<"\n">>) =>
       result = Return(<<>>)
\* the squash rule has discarded a message whose first line has no bullet
C8_Witness ==
  /\ pc = "squash" /\ line_sep = <<"\n">> /\ discard = Return(TRUE)
  /\ message = Str(<<"f","i","x"," ","b","u","g","\n","*"," ","a","d","d"," ","a","@","b",".","c">>)

\* the lines of r under "\n"
LinesOf(r) == SplitFrom(r, <<"\n">>, 0)

\* C10: the filter keeps every non-empty string r the driver returns, under
\* the same separator: r is ASCII, has at least two tokens, has no
\* trivial-or-bot shape and does not start with Merge or Revert; when the
\* separator is "\n", no line of r is empty or has whitespace at either end.
C10_OutputWellFormed ==
  pc = "refiltered" =>
    /\ discard = Return(FALSE)
    /\ IsAscii(result.value)
    /\ TokenCount(result.value) >= 2
    /\ ~_filter_trivial_or_bot(result.value)
    /\ ~StartsWith(result.value, <<"M","e","r","g","e">>) /\ ~StartsWith(result.value, <<"R","e","v","e","r","t">>)
    /\ line_sep = <<"\n">> =>
         \A k \in 1..Len(LinesOf(result.value)) :
           /\ LinesOf(result.value)[k] # <<>>
           /\ Strip(LinesOf(result.value)[k]) = LinesOf(result.value)[k]
\* the driver has returned two cleaned lines and the filter has seen them
C10_Witness ==
  /\ pc = "refiltered" /\ line_sep = <<"\n">> /\ ~replace_patterns
  /\ result = Return(<<"f","i","x"," ","b","u","g","\n","F","i","x","e","s">>) /\ discard = Return(FALSE)

(***************************************************************************)
(* The batch: process() hands one _process task per row to a pool of       *)
(* n_workers workers (joblib.Parallel) and keeps the rows whose text is    *)
(* not empty.  A task may start while a worker is free; the pool returns   *)
(* the outcomes in the order of the rows, or raises what a task raised.    *)
(***************************************************************************)
MaxRows == 2
MaxWorkers == 2
BatchMessages == {NaN, Str(<<"f","i","x"," ","b","u","g">>), Str(<<"s","e","e"," ","#","1"," ","n","o","w">>)}

\* the rows whose task is running
Running == {i \in DOMAIN status : status[i] = "running"}
\* the outcomes of the tasks done, whatever their order
Outcomes == {results[k][2] : k \in DOMAIN results}

\* the outcomes in the order the tasks completed
as_completed(done, n) == [k \in 1..n |-> done[k][2]]
\* filtered_messages: the list the pool returns, the outcome of row i at i
filtered_messages(done, n) ==
  [i \in 1..n |-> done[CHOOSE k \in DOMAIN done : done[k][1] = i][2]]
\* chunk.loc[chunk.message.str.len() > 0], each row as <<row, message>>
NonEmptyRows(messages) ==
  SelectSeq([i \in 1..Len(messages) |-> <<i, messages[i].value>>],
            LAMBDA row : Len(row[2]) > 0)

InitBatch ==
  /\ pc = "pool"
  /\ chunk \in SeqsUpTo(BatchMessages, MaxRows)
  /\ n_workers \in 1..MaxWorkers
  /\ status = [i \in 1..Len(chunk) |-> "pending"]
  /\ results = <<>> /\ returned = Return(<<>>)
  /\ replace_patterns \in BOOLEAN /\ line_sep \in {<<"\n">>, <<>>}
  /\ NoRemover /\ NoFilter

\* a free worker takes the task of row i
Start(i) ==
  /\ pc = "pool" /\ status[i] = "pending" /\ Cardinality(Running) < n_workers
  /\ status' = [status EXCEPT ![i] = "running"]
  /\ UNCHANGED <<pc, removerVars, modeVars, filterVars, chunk, n_workers,
                 results, returned>>

\* the task of row i completes: _process on the message of row i
Finish(i) ==
  /\ pc = "pool" /\ status[i] = "running"
  /\ status' = [status EXCEPT ![i] = "done"]
  /\ results' = Append(results, <<i, _process(chunk[i], replace_patterns, line_sep)>>)
  /\ UNCHANGED <<pc, removerVars, modeVars, filterVars, chunk, n_workers, returned>>

\* every task is done and none raised: process() returns the rows it keeps
Collect ==
  /\ pc = "pool"
  /\ \A i \in DOMAIN status : status[i] = "done"
  /\ \A r \in Outcomes : r.raised = ""
  /\ returned' = Return(NonEmptyRows(filtered_messages(results, Len(chunk))))
  /\ pc' = "returned"
  /\ UNCHANGED <<removerVars, modeVars, filterVars, chunk, n_workers, status, results>>

\* a task raised: the pool raises it and so does process()
Abort ==
  /\ pc = "pool"
  /\ \E r \in Outcomes :
       /\ r.raised # ""
       /\ returned' = Raise(r.raised, <<>>)
  /\ pc' = "returned"
  /\ UNCHANGED <<removerVars, modeVars, filterVars, chunk, n_workers, status, results>>

NextBatch == (\E i \in DOMAIN status : Start(i) \/ Finish(i)) \/ Collect \/ Abort
SpecBatch == InitBatch /\ [][NextBatch]_vars

\* the rows kept when the messages from row i on are processed one after the
\* other, behind the rows kept so far
RECURSIVE SequentialFrom(_, _)
KeepRow(i, kept, r) ==
  IF r.raised # "" THEN Raise(r.raised, <<>>)
  ELSE SequentialFrom(i + 1, IF r.value = <<>> THEN kept ELSE Append(kept, <<i, r.value>>))
SequentialFrom(i, kept) ==
  IF i > Len(chunk) THEN Return(kept)
  ELSE KeepRow(i, kept, _process(chunk[i], replace_patterns, line_sep))

\* C9: whatever the number of workers and the order in which the tasks start
\* and complete, process() returns what processing the rows one after the
\* other returns: the rows whose driver output is not empty, in the order of
\* the batch, each with the output for its own message.
C9_BatchIsSequential == pc = "returned" => returned = SequentialFrom(1, <<>>)
\* two rows are kept and the task of the second row completed first
C9_Witness ==
  /\ pc = "returned" /\ returned.raised = "" /\ Len(returned.value) = 2
  /\ results[1][1] = 2 /\ returned.value[1][2] # returned.value[2][2]

=============================================================================
